---------------------------- MODULE Spec2Model ----------------------------
(***************************************************************************)
(* A model of torch::executor::TensorImpl, the non-owning tensor shape     *)
(* descriptor of runtime/core/portable_type/tensor_impl.cpp: its           *)
(* constructor and internal_resize_contiguous.                             *)
(*                                                                         *)
(* The descriptor's fields keep their source names.  Pointers to the       *)
(* caller-owned buffers are modelled as the buffer's contents (a sequence) *)
(* together with a flag telling whether the pointer is nullptr.            *)
(* Sequences are 1-indexed; the values of a dim order are the source's     *)
(* 0-based axis numbers.                                                   *)
(***************************************************************************)
EXTENDS Integers, Sequences, FiniteSets

VARIABLES
    type_,            \* ScalarType tag
    data_,            \* opaque data pointer
    dim_,             \* rank
    shape_dynamism_,  \* TensorShapeDynamism
    sizes_,           \* contents of the sizes buffer
    dim_order_null,   \* dim_order_ == nullptr
    dim_order_,       \* contents of the dim order buffer (<<>> when nullptr)
    strides_null,     \* strides_ == nullptr
    strides_,         \* contents of the strides buffer (<<>> when nullptr)
    numel_,           \* current element count
    numel_bound_,     \* capacity, fixed by the constructor
    pc,               \* the caller's position: "idle", or "returned" from a call
    new_sizes,        \* argument of the call that has returned (<<>> when idle)
    error,            \* Error the call returned ("None" when idle)
    rt,               \* a caller's record of the descriptor before a resize
                      \* it means to undo (round trips only)
    hk                \* the delegate event hooks: the build flag, the calls
                      \* made on the hooks and those the tracer received

vars == << type_, data_, dim_, shape_dynamism_, sizes_, dim_order_null,
           dim_order_, strides_null, strides_, numel_, numel_bound_,
           pc, new_sizes, error, rt, hk >>

desc == << type_, data_, dim_, shape_dynamism_, sizes_, dim_order_null,
           dim_order_, strides_null, strides_, numel_, numel_bound_ >>

-----------------------------------------------------------------------------
(* Bounds of the model. *)

\* Largest rank a descriptor is constructed with, and longest request.
MaxRank == 2

\* Largest extent of a constructed or requested shape.
MaxExtent == 3

\* Width in bits of ssize_t, the type compute_numel multiplies in.  The
\* source's 64 bits are scaled down with the extents, so that the products
\* the bounds allow reach past the type's range as 32-bit extents do.
NumelBits == 4

\* SizesType is a signed integer type: a request may carry a negative
\* extent.  The negative extent of the model is large enough for a product
\* to pass the lower end of ssize_t as well as the upper one.
Extents == {0 - MaxExtent} \cup (0 .. MaxExtent)

\* The extents a memory planner constructs a descriptor with.
InitExtents == 1 .. MaxExtent

Ranks == 0 .. MaxRank

SeqsOf(S, n) == [1 .. n -> S]

Requests == UNION { SeqsOf(Extents, n) : n \in Ranks }

STATIC == "STATIC"
DYNAMIC_BOUND == "DYNAMIC_BOUND"
DYNAMIC_UNBOUND == "DYNAMIC_UNBOUND"
Dynamisms == {STATIC, DYNAMIC_BOUND, DYNAMIC_UNBOUND}

\* Error codes returned by the source.
Ok == "Ok"
NotSupported == "NotSupported"
Internal == "Internal"

-----------------------------------------------------------------------------
(* Arithmetic of the source's integer types. *)

NumelMax == 2 ^ (NumelBits - 1) - 1
NumelMin == 0 - 2 ^ (NumelBits - 1)

\* Two's-complement wrap of a product into ssize_t.  Signed overflow is
\* undefined in C++; the wrapped value is what the multiply instruction
\* emitted for line 30 leaves when the exact product is out of range.
WrapNumel(x) == ((x - NumelMin) % (2 ^ NumelBits)) + NumelMin

\* The exact (mathematical) product of the first dim entries.
RECURSIVE Product(_, _)
Product(sizes, dim) ==
    IF dim = 0 THEN 1 ELSE Product(sizes, dim - 1) * sizes[dim]

\* compute_numel: numel = 1; for i < dim: numel *= sizes[i].
RECURSIVE compute_numel(_, _)
compute_numel(sizes, dim) ==
    IF dim = 0 THEN 1
    ELSE WrapNumel(compute_numel(sizes, dim - 1) * sizes[dim])

-----------------------------------------------------------------------------
(* The layout converter, dim_order_to_stride. *)

\* A dim order is valid when it is a permutation of 0 .. dims-1.
validate_dim_order(dim_order, dims) ==
    /\ Len(dim_order) = dims
    /\ \A a \in 0 .. dims - 1 : \E k \in 1 .. dims : dim_order[k] = a

\* stride of the axis at physical position k (1 = outermost, dims =
\* innermost): 1 for the innermost, else the stride of the next faster axis
\* times that axis's extent.
RECURSIVE PhysStride(_, _, _, _)
PhysStride(sizes, dim_order, dims, k) ==
    IF k = dims THEN 1
    ELSE PhysStride(sizes, dim_order, dims, k + 1)
             * sizes[dim_order[k + 1] + 1]

\* The strides in logical axis order.
StridesOf(sizes, dim_order, dims) ==
    [a \in 1 .. dims |->
        LET k == CHOOSE j \in 1 .. dims : dim_order[j] = a - 1
        IN  PhysStride(sizes, dim_order, dims, k)]

\* The converter's result: an error code and the strides buffer afterwards.
dim_order_to_stride(sizes, dim_order, dims, strides) ==
    IF dims = 0 THEN [err |-> Ok, strides |-> strides]
    ELSE IF ~validate_dim_order(dim_order, dims)
         THEN [err |-> Internal, strides |-> strides]
         ELSE [err |-> Ok, strides |-> StridesOf(sizes, dim_order, dims)]

-----------------------------------------------------------------------------
(* Construction. *)

ScalarTypes == {"Float"}

\* The dim orders a descriptor is constructed over: the row-major order,
\* the reversed order, and two sequences that are no permutation (an axis
\* repeated, an axis out of range).
DimOrderInputs(dim) ==
    { [k \in 1 .. dim |-> k - 1], [k \in 1 .. dim |-> dim - k] }
        \cup { [k \in 1 .. dim |-> 0], [k \in 1 .. dim |-> dim] }

\* The strides a caller hands to the constructor: those of the initial
\* shape, or other contents.
StridesInputs(sizes, dim_order, dim) ==
    { [k \in 1 .. dim |-> 0] }
        \cup (IF validate_dim_order(dim_order, dim)
              THEN { StridesOf(sizes, dim_order, dim) } ELSE {})

\* TensorImpl::TensorImpl: stores its arguments; numel_ and numel_bound_
\* are compute_numel of the initial sizes.
TensorImpl(type, dim, sizes, data, dim_order, dnull, strides, snull, dynamism) ==
    /\ type_ = type
    /\ data_ = data
    /\ dim_ = dim
    /\ shape_dynamism_ = dynamism
    /\ sizes_ = sizes
    /\ dim_order_null = dnull
    /\ dim_order_ = dim_order
    /\ strides_null = snull
    /\ strides_ = strides
    /\ numel_ = compute_numel(sizes, dim)
    /\ numel_bound_ = compute_numel(sizes, dim)

\* No round trip is under way.
RtOff == [phase |-> "off", sizes |-> << >>, strides |-> << >>, numel |-> 0,
          consistent |-> FALSE, errB |-> "None", moved |-> FALSE]

\* No hook has been called; whether ET_EVENT_TRACER_ENABLED is defined.
HkNew(enabled) == [enabled |-> enabled, invoked |-> << >>,
                  received |-> << >>, ret |-> 0]

Init ==
    /\ pc = "idle"
    /\ rt = RtOff
    /\ hk = HkNew(FALSE)
    /\ new_sizes = << >>
    /\ error = "None"
    /\ \E type \in ScalarTypes, dim \in Ranks, dynamism \in Dynamisms :
       \E sizes \in SeqsOf(InitExtents, dim) :
          \* the planner's buffer holds the shape: its element count is
          \* representable
          /\ Product(sizes, dim) <= NumelMax
          /\ \E dnull \in BOOLEAN :
             \E dim_order \in (IF dnull THEN { << >> } ELSE DimOrderInputs(dim)) :
             \E snull \in BOOLEAN :
             \E strides \in (IF snull THEN { << >> }
                             ELSE StridesInputs(sizes, dim_order, dim)) :
                TensorImpl(type, dim, sizes, "data", dim_order, dnull,
                           strides, snull, dynamism)

-----------------------------------------------------------------------------
(* internal_resize_contiguous. *)

\* The descriptor's written fields left as they are, and the returned e.
Keep(e) == [err |-> e, sizes |-> sizes_, strides |-> strides_, numel |-> numel_]

\* Variants of the dynamic case with a plausible slip each.
\* The element count and the sizes are committed before the buffer checks.
ResizeDynamic_EarlyCommit(ns) ==
    LET new_numel == compute_numel(ns, dim_)
        conv == dim_order_to_stride(ns, dim_order_, dim_, strides_)
        early(e) == [err |-> e, sizes |-> ns, strides |-> strides_,
                     numel |-> new_numel]
    IN  IF ~(new_numel <= numel_bound_) THEN Keep(NotSupported)
        ELSE IF strides_null THEN early(Internal)
        ELSE IF dim_order_null THEN early(Internal)
        ELSE IF conv.err # Ok THEN early(conv.err)
        ELSE [err |-> Ok, sizes |-> ns, strides |-> conv.strides,
              numel |-> new_numel]

\* The call of the layout converter is left out.
ResizeDynamic_NoStrides(ns) ==
    LET new_numel == compute_numel(ns, dim_)
    IN  IF ~(new_numel <= numel_bound_) THEN Keep(NotSupported)
        ELSE IF strides_null THEN Keep(Internal)
        ELSE IF dim_order_null THEN Keep(Internal)
        ELSE [err |-> Ok, sizes |-> ns, strides |-> strides_,
              numel |-> new_numel]

\* The layout converter is given sizes_, not yet overwritten, for new_sizes.
ResizeDynamic_OldSizes(ns) ==
    LET new_numel == compute_numel(ns, dim_)
        conv == dim_order_to_stride(sizes_, dim_order_, dim_, strides_)
    IN  IF ~(new_numel <= numel_bound_) THEN Keep(NotSupported)
        ELSE IF strides_null THEN Keep(Internal)
        ELSE IF dim_order_null THEN Keep(Internal)
        ELSE IF conv.err # Ok THEN Keep(conv.err)
        ELSE [err |-> Ok, sizes |-> ns, strides |-> conv.strides,
              numel |-> new_numel]

\* Lines 92-116: the DYNAMIC_BOUND / DYNAMIC_UNBOUND case.
ResizeDynamic(ns) ==
    LET new_numel == compute_numel(ns, dim_)
        conv == dim_order_to_stride(ns, dim_order_, dim_, strides_)
    IN  IF ~(new_numel <= numel_bound_) THEN Keep(NotSupported)
        ELSE IF strides_null THEN Keep(Internal)
        ELSE IF dim_order_null THEN Keep(Internal)
        ELSE IF conv.err # Ok
             THEN [err |-> conv.err, sizes |-> sizes_,
                   strides |-> conv.strides, numel |-> numel_]
        ELSE [err |-> Ok, sizes |-> ns, strides |-> conv.strides,
              numel |-> new_numel]

\* Variants of the static case.
\* std::equal stops one entry short.
ResizeStatic_Prefix(ns) ==
    IF \A i \in 1 .. dim_ - 1 : sizes_[i] = ns[i] THEN Keep(Ok)
    ELSE Keep(NotSupported)

\* The break of line 91 is missing: an accepted request falls through into
\* the dynamic case.
ResizeStatic_Fallthrough(ns) ==
    IF \A i \in 1 .. dim_ : sizes_[i] = ns[i] THEN ResizeDynamic(ns)
    ELSE Keep(NotSupported)

\* Lines 86-91: the STATIC case, std::equal over the first dim_ entries.
ResizeStatic(ns) ==
    IF \A i \in 1 .. dim_ : sizes_[i] = ns[i] THEN Keep(Ok)
    ELSE Keep(NotSupported)

\* Variants of the order of the checks.
\* The rank-0 return comes before the rank check.
ResizeOutcome_ScalarFirst(ns) ==
    IF dim_ = 0 THEN Keep(Ok)
    ELSE IF Len(ns) # dim_ THEN Keep(NotSupported)
    ELSE IF shape_dynamism_ = STATIC THEN ResizeStatic(ns)
    ELSE ResizeDynamic(ns)

\* The rank-0 return of lines 82-84 is missing.
ResizeOutcome_NoScalarReturn(ns) ==
    IF Len(ns) # dim_ THEN Keep(NotSupported)
    ELSE IF shape_dynamism_ = STATIC THEN ResizeStatic(ns)
    ELSE ResizeDynamic(ns)

\* A variant of the switch in which DYNAMIC_UNBOUND has a case of its own,
\* without the capacity check of lines 96-102.
ResizeSwitch_UnboundGrows(dynamism, ns) ==
    CASE dynamism = STATIC -> ResizeStatic(ns)
      [] dynamism = DYNAMIC_BOUND -> ResizeDynamic(ns)
      [] dynamism = DYNAMIC_UNBOUND ->
            LET conv == dim_order_to_stride(ns, dim_order_, dim_, strides_)
            IN  IF strides_null \/ dim_order_null THEN Keep(Internal)
                ELSE IF conv.err # Ok
                     THEN [err |-> conv.err, sizes |-> sizes_,
                           strides |-> conv.strides, numel |-> numel_]
                ELSE [err |-> Ok, sizes |-> ns, strides |-> conv.strides,
                      numel |-> compute_numel(ns, dim_)]

\* Lines 85-116: the switch on the shape dynamism.  The labels
\* DYNAMIC_BOUND (line 92) and DYNAMIC_UNBOUND (line 95) head one block.
ResizeSwitch(dynamism, ns) ==
    CASE dynamism = STATIC -> ResizeStatic(ns)
      [] dynamism = DYNAMIC_BOUND -> ResizeDynamic(ns)
      [] dynamism = DYNAMIC_UNBOUND -> ResizeDynamic(ns)

\* Lines 66-119 for a descriptor of the given shape dynamism.
OutcomeUnder(dynamism, ns) ==
    IF Len(ns) # dim_ THEN Keep(NotSupported)
    ELSE IF dim_ = 0 THEN Keep(Ok)
    ELSE ResizeSwitch(dynamism, ns)

\* Lines 66-119: the value returned and the buffers afterwards.
ResizeOutcome(ns) == OutcomeUnder(shape_dynamism_, ns)

\* A variant that lowers the capacity to the committed element count.
internal_resize_contiguous_Shrinks(ns) ==
    LET r == ResizeOutcome(ns)
    IN  /\ pc = "idle"
        /\ pc' = "returned"
        /\ new_sizes' = ns
        /\ error' = r.err
        /\ sizes_' = r.sizes
        /\ strides_' = r.strides
        /\ numel_' = r.numel
        /\ numel_bound_' = r.numel
        /\ UNCHANGED << type_, data_, dim_, shape_dynamism_, dim_order_null,
                        dim_order_, strides_null >>

internal_resize_contiguous(ns) ==
    LET r == ResizeOutcome(ns)
    IN  /\ pc = "idle"
        /\ pc' = "returned"
        /\ new_sizes' = ns
        /\ error' = r.err
        /\ sizes_' = r.sizes
        /\ strides_' = r.strides
        /\ numel_' = r.numel
        /\ UNCHANGED << type_, data_, dim_, shape_dynamism_, dim_order_null,
                        dim_order_, strides_null, numel_bound_ >>

Resize ==
    \E ns \in Requests :
        internal_resize_contiguous(ns) /\ UNCHANGED << rt, hk >>

\* The kernel or executor that called reads the returned status; the
\* argument array is its own and is gone with the call.
StatusRead ==
    /\ pc = "returned"
    /\ pc' = "idle"
    /\ new_sizes' = << >>
    /\ error' = "None"
    /\ UNCHANGED desc

CallerChecksStatus == StatusRead /\ UNCHANGED << rt, hk >>

Next == Resize \/ CallerChecksStatus

Spec == Init /\ [][Next]_vars

-----------------------------------------------------------------------------
(* A caller that resizes a dynamic descriptor away from its shape and back. *)

\* Both buffers are present and the dim order is a permutation.
WellFormed ==
    /\ ~strides_null
    /\ ~dim_order_null
    /\ validate_dim_order(dim_order_, dim_)

\* strides is the layout converter's output for the current sizes.
StridesConsistent ==
    /\ WellFormed
    /\ strides_ = StridesOf(sizes_, dim_order_, dim_)

\* The caller notes sizes, strides and the element count, and resizes; the
\* round trips followed are those whose first resize takes place.
RT_There ==
    /\ rt.phase = "off"
    /\ \E ns \in Requests :
          /\ internal_resize_contiguous(ns)
          /\ error' = Ok
          /\ rt' = [phase |-> "there", sizes |-> sizes_, strides |-> strides_,
                    numel |-> numel_, consistent |-> StridesConsistent,
                    errB |-> error', moved |-> (sizes_' # sizes_)]
    /\ UNCHANGED hk

\* The caller resizes to the sizes it noted.
RT_Back ==
    /\ rt.phase = "there"
    /\ internal_resize_contiguous(rt.sizes)
    /\ rt' = [rt EXCEPT !.phase = "back"]
    /\ UNCHANGED hk

\* The caller reads the status of either call; after the second the round
\* trip is over.
RT_StatusRead ==
    /\ StatusRead
    /\ rt' = IF rt.phase = "back" THEN RtOff ELSE rt
    /\ UNCHANGED hk

\* The caller stays with the new shape and drops its note.
RT_Stay ==
    /\ pc = "idle"
    /\ rt.phase = "there"
    /\ rt' = RtOff
    /\ UNCHANGED << desc, pc, new_sizes, error, hk >>

\* Round trips are made on dynamic descriptors that can be resized at all.
InitRoundTrip == Init /\ shape_dynamism_ # STATIC /\ WellFormed

NextRoundTrip == RT_There \/ RT_Back \/ RT_StatusRead \/ RT_Stay

SpecRoundTrip == InitRoundTrip /\ [][NextRoundTrip]_vars

-----------------------------------------------------------------------------
(* The delegate event hooks of event_tracer_hooks_delegate.h, called by a   *)
(* delegate backend around its work.  hk.enabled is the build's             *)
(* ET_EVENT_TRACER_ENABLED; hk.received is the EventTracer's record of the  *)
(* calls made on it, hk.invoked the record of the calls made on the hooks.  *)

\* Most hook calls followed in one run.
MaxHookCalls == 2

NULLPTR == "nullptr"
TRACER == "tracer"
Tracers == {NULLPTR, TRACER}

\* Arguments of the hooks.
Names == {NULLPTR, "conv"}
DebugHandles == {-1, 7}
Metadata == { << NULLPTR, 0 >>, << "md", 2 >> }
Timestamps == { << 10, 20 >> }
Outputs == { [type |-> "int", value |-> 5], [type |-> "bool", value |-> 1],
             [type |-> "Tensor", value |-> 0] }

\* EventTracerEntry(): the value-initialised entry.
DefaultEntry == 0

\* The entry an EventTracer hands out for a start call: one per call it has
\* received, none of them the value-initialised one.
TracerEntry(received) == Len(received) + 1

Entries == 0 .. MaxHookCalls

\* A hook forwards when the tracer code is compiled in and a tracer is given.
Forwards(event_tracer) == hk.enabled /\ event_tracer # NULLPTR

\* The hook call noted, the tracer's method called when the hook forwards.
Hook(hook, event_tracer, method, args, ret) ==
    /\ Len(hk.invoked) < MaxHookCalls
    /\ hk' = [hk EXCEPT
                !.invoked = Append(@, [hook |-> hook, tracer |-> event_tracer,
                                       args |-> args]),
                !.received = IF Forwards(event_tracer)
                             THEN Append(@, [method |-> method, args |-> args])
                             ELSE @,
                !.ret = ret]
    /\ UNCHANGED << desc, pc, new_sizes, error, rt >>

\* A variant of the start hook that forwards and then falls to the return
\* of line 63.
event_tracer_start_profiling_delegate_NoReturn(event_tracer, name, delegate_debug_id) ==
    Hook("start", event_tracer, "start_profiling_delegate",
         << name, delegate_debug_id >>, DefaultEntry)

\* Lines 50-64.
event_tracer_start_profiling_delegate(event_tracer, name, delegate_debug_id) ==
    Hook("start", event_tracer, "start_profiling_delegate",
         << name, delegate_debug_id >>,
         IF Forwards(event_tracer) THEN TracerEntry(hk.received)
         ELSE DefaultEntry)

\* Lines 81-96.
event_tracer_end_profiling_delegate(event_tracer, event_tracer_entry, metadata, metadata_len) ==
    Hook("end", event_tracer, "end_profiling_delegate",
         << event_tracer_entry, metadata, metadata_len >>, hk.ret)

\* Lines 125-146.
event_tracer_log_profiling_delegate(event_tracer, name, delegate_debug_id, start_time, end_time, metadata, metadata_len) ==
    Hook("log_profiling", event_tracer, "log_profiling_delegate",
         << name, delegate_debug_id, start_time, end_time, metadata,
            metadata_len >>, hk.ret)

\* Lines 167-188.
event_tracer_log_output_delegate(event_tracer, name, delegate_debug_id, output) ==
    Hook("log_output", event_tracer, "log_intermediate_output_delegate",
         << name, delegate_debug_id, output >>, hk.ret)

StartDelegate ==
    \E et \in Tracers, name \in Names, id \in DebugHandles :
        event_tracer_start_profiling_delegate(et, name, id)

EndDelegate ==
    \E et \in Tracers, entry \in Entries, md \in Metadata :
        event_tracer_end_profiling_delegate(et, entry, md[1], md[2])

LogProfilingDelegate ==
    \E et \in Tracers, name \in Names, id \in DebugHandles,
       ts \in Timestamps, md \in Metadata :
        event_tracer_log_profiling_delegate(et, name, id, ts[1], ts[2],
                                            md[1], md[2])

LogOutputDelegate ==
    \E et \in Tracers, name \in Names, id \in DebugHandles, out \in Outputs :
        event_tracer_log_output_delegate(et, name, id, out)

\* The hooks are called around a delegate's work on some tensor; the
\* descriptor plays no part in them.
InitHooks ==
    /\ pc = "idle"
    /\ rt = RtOff
    /\ new_sizes = << >>
    /\ error = "None"
    /\ \E enabled \in BOOLEAN : hk = HkNew(enabled)
    /\ TensorImpl("Float", 0, << >>, "data", << >>, FALSE, << >>, FALSE, STATIC)

NextHooks ==
    StartDelegate \/ EndDelegate \/ LogProfilingDelegate \/ LogOutputDelegate

SpecHooks == InitHooks /\ [][NextHooks]_vars

-----------------------------------------------------------------------------
(* The size accessors. *)

\* elementSize(ScalarType): the width in bytes of one element.
elementSize(type) == CASE type = "Float" -> 4

\* Lines 62-64.
element_size == elementSize(type_)

\* Lines 57-59: numel_ * elementSize(type_), the ssize_t converted to the
\* size_t of the other operand and the product taken in size_t.
nbytes == (numel_ * elementSize(type_)) % (2 ^ NumelBits)

-----------------------------------------------------------------------------
(* Vocabulary of the properties. *)

\* The error taxonomy of the design, in the source's Error codes: an
\* unsupported resize is Error::NotSupported (lines 89, 99), an internal
\* error is Error::Internal (lines 105, 109).
UnsupportedResize == NotSupported
InternalError == Internal

Dynamic == shape_dynamism_ \in {DYNAMIC_BOUND, DYNAMIC_UNBOUND}

Returned == pc = "returned"

-----------------------------------------------------------------------------
(* C1: for a dynamic descriptor of rank >= 1 with both buffers present and  *)
(* a valid dim order, a request of the descriptor's rank succeeds if and    *)
(* only if the product of the requested extents is at most the capacity.    *)
(* The statement is violated: compute_numel multiplies in ssize_t, and a    *)
(* product past its range wraps to a value that passes the bound check.     *)
C1_SucceedsIffFits ==
    (Returned /\ Dynamic /\ dim_ >= 1 /\ WellFormed /\ Len(new_sizes) = dim_)
        => ((error = Ok) <=> (Product(new_sizes, dim_) <= numel_bound_))

-----------------------------------------------------------------------------
(* C2: a call that returns a failure leaves sizes, strides, the element     *)
(* count and the capacity exactly as they were before the call.             *)
C2_FailureWritesNothing ==
    [][(pc' = "returned" /\ error' # Ok)
          => (/\ sizes_' = sizes_
              /\ strides_' = strides_
              /\ numel_' = numel_
              /\ numel_bound_' = numel_bound_)]_vars

\* A dynamic resize past the capacity has failed on a descriptor that holds
\* another shape than the requested one.
C2_Witness ==
    /\ Returned /\ Dynamic /\ WellFormed
    /\ Len(new_sizes) = dim_
    /\ error = NotSupported
    /\ new_sizes # sizes_
    /\ Product(new_sizes, dim_) > numel_bound_

-----------------------------------------------------------------------------
(* C3: in every reachable state 0 <= elementCount <= capacity.  The         *)
(* statement is violated: a request with a negative extent (SizesType is    *)
(* signed), or one whose product wraps below zero, passes the bound check   *)
(* and is committed as the element count.                                   *)
C3_NumelWithinBound == 0 <= numel_ /\ numel_ <= numel_bound_

-----------------------------------------------------------------------------
(* C4: elementCount equals the product of sizes after construction and      *)
(* after every successful resize.  The statement is violated after a        *)
(* successful resize whose product is past the range of ssize_t (C1).       *)
C4_NumelIsProduct ==
    (error \in {"None", Ok}) => numel_ = Product(sizes_, dim_)

-----------------------------------------------------------------------------
(* C5, as stated: in every state strides equals the layout converter's      *)
(* output for the current sizes and dim order (wherever the converter has   *)
(* an output).  Violated at construction, which stores the strides pointer  *)
(* it is given and computes nothing.                                        *)
C5_StridesNeverStale ==
    WellFormed => strides_ = StridesOf(sizes_, dim_order_, dim_)

(* C5, amended: strides that equal the converter's output stay equal to it  *)
(* across every step, and every successful dynamic resize of rank >= 1      *)
(* leaves strides equal to the converter's output for the new sizes.        *)
C5_StridesStayConsistent ==
    [][/\ StridesConsistent => StridesConsistent'
       /\ (pc' = "returned" /\ error' = Ok /\ Dynamic /\ dim_ >= 1)
             => StridesConsistent']_vars

\* A dynamic descriptor of rank >= 2 has been resized, and its strides are
\* those of the new sizes, one of them past 1.
C5_Witness ==
    /\ Returned /\ Dynamic /\ dim_ >= 2
    /\ error = Ok
    /\ StridesConsistent
    /\ \E i \in 1 .. dim_ : strides_[i] > 1

-----------------------------------------------------------------------------
(* C6: on a STATIC descriptor of rank >= 1, a request of the descriptor's   *)
(* rank succeeds when it equals the current sizes, writing nothing, and     *)
(* fails with UnsupportedResize when it differs in any position.            *)
C6_StaticResize ==
    [][(/\ pc' = "returned"
        /\ shape_dynamism_ = STATIC
        /\ dim_ >= 1
        /\ Len(new_sizes') = dim_)
          => IF new_sizes' = sizes_
             THEN error' = Ok /\ UNCHANGED << sizes_, strides_, numel_ >>
             ELSE error' = UnsupportedResize]_vars

\* A static descriptor has accepted a request for its own shape.
C6_Witness ==
    /\ Returned
    /\ shape_dynamism_ = STATIC
    /\ dim_ >= 1
    /\ new_sizes = sizes_
    /\ error = Ok

-----------------------------------------------------------------------------
(* C7: under STATIC no step changes sizes, the element count or strides:    *)
(* they are the construction-time values in every state.                    *)
C7_StaticNeverChanges ==
    [][shape_dynamism_ = STATIC
          => UNCHANGED << sizes_, numel_, strides_ >>]_vars

\* A static descriptor has refused a request of its rank for another shape.
C7_Witness ==
    /\ Returned
    /\ shape_dynamism_ = STATIC
    /\ dim_ >= 1
    /\ Len(new_sizes) = dim_
    /\ new_sizes # sizes_
    /\ error = NotSupported

-----------------------------------------------------------------------------
(* C8, as stated: a request whose length differs from the rank fails with   *)
(* a rank error of its own, distinct from UnsupportedResize and             *)
(* InternalError.  Violated: lines 67-72 return Error::NotSupported, the    *)
(* code of an unsupported resize.                                           *)
C8_RankErrorIsDistinct ==
    (Returned /\ Len(new_sizes) # dim_)
        => error \notin {Ok, UnsupportedResize, InternalError}

(* C8, amended: for every policy and rank, rank 0 included, a request whose *)
(* length differs from the rank fails with Error::NotSupported, whatever    *)
(* else is wrong with the request or the descriptor.                        *)
C8_RankMismatchNotSupported ==
    (Returned /\ Len(new_sizes) # dim_) => error = NotSupported

\* The rank check has answered for a request that would also have failed
\* the later checks: past the capacity, on a descriptor without strides.
C8_Witness ==
    /\ Returned /\ Dynamic /\ dim_ >= 1
    /\ strides_null
    /\ Len(new_sizes) > dim_
    /\ Product(new_sizes, Len(new_sizes)) > numel_bound_
    /\ error = NotSupported

-----------------------------------------------------------------------------
(* C9, as stated: on a rank-0 descriptor every resize call succeeds,        *)
(* whatever the content of the request.  Violated by a request that is not  *)
(* empty: it fails the rank check of lines 67-72.                           *)
C9_ScalarAlwaysSucceeds ==
    (Returned /\ dim_ = 0) => error = Ok

(* C9, amended: on a rank-0 descriptor, under every policy and with or      *)
(* without strides and dim order buffers, a resize call with an empty       *)
(* request succeeds and one with a request that is not empty fails with     *)
(* NotSupported; the element count is 1 and equal to the capacity in every  *)
(* state.                                                                   *)
C9_ScalarResize ==
    dim_ = 0 =>
        /\ numel_ = 1
        /\ numel_bound_ = 1
        /\ sizes_ = << >>
        /\ Returned => error = (IF new_sizes = << >> THEN Ok ELSE NotSupported)

\* A dynamic scalar without strides and dim order has accepted the empty
\* request.
C9_Witness ==
    /\ Returned /\ Dynamic /\ dim_ = 0
    /\ strides_null /\ dim_order_null
    /\ new_sizes = << >>
    /\ error = Ok

-----------------------------------------------------------------------------
(* C10: on a dynamic descriptor whose strides are consistent with its sizes *)
(* A, a successful resize to B followed by a successful resize back to A    *)
(* leaves sizes, strides and the element count as they were before the two  *)
(* calls.                                                                   *)
C10_RoundTrip ==
    (/\ Returned
     /\ rt.phase = "back"
     /\ rt.consistent
     /\ rt.errB = Ok
     /\ error = Ok)
        => /\ sizes_ = rt.sizes
           /\ strides_ = rt.strides
           /\ numel_ = rt.numel

\* A round trip through another shape, with other strides, has completed.
C10_Witness ==
    /\ Returned
    /\ rt.phase = "back"
    /\ rt.consistent /\ rt.moved
    /\ rt.errB = Ok /\ error = Ok
    /\ dim_ >= 2
    /\ \E i \in 1 .. dim_ : strides_[i] > 1

-----------------------------------------------------------------------------
(* C11: no step changes the rank, the capacity, the policy, the element     *)
(* type, the dim order (pointer and contents), the strides pointer or the   *)
(* data pointer; sizes, strides and the element count change only in a      *)
(* resize of a dynamic descriptor that returns Ok.                          *)
C11_Frame ==
    [][/\ UNCHANGED << dim_, numel_bound_, shape_dynamism_, type_, data_,
                       dim_order_null, dim_order_, strides_null >>
       /\ (<< sizes_, strides_, numel_ >>' # << sizes_, strides_, numel_ >>)
             => (pc' = "returned" /\ error' = Ok
                 /\ shape_dynamism_ \in {DYNAMIC_BOUND, DYNAMIC_UNBOUND})]_vars

\* A dynamic resize has succeeded and left the element count below the
\* capacity.
C11_Witness ==
    /\ pc = "returned"
    /\ error = Ok
    /\ shape_dynamism_ \in {DYNAMIC_BOUND, DYNAMIC_UNBOUND}
    /\ dim_ >= 1
    /\ 0 <= numel_ /\ numel_ < numel_bound_

-----------------------------------------------------------------------------
(* C12: on a dynamic descriptor of rank >= 1, a request of the descriptor's *)
(* rank whose product is at most the capacity fails with InternalError when *)
(* the strides or the dim order buffer is absent or the dim order is no     *)
(* permutation, and sizes and the element count are not updated.  The       *)
(* statement is violated: a product below the range of ssize_t wraps to a   *)
(* value past the capacity (C1), and the call fails with NotSupported       *)
(* before the buffers are looked at.                                        *)
C12_MalformedIsInternal ==
    [][(/\ pc' = "returned" /\ Dynamic /\ dim_ >= 1
        /\ Len(new_sizes') = dim_
        /\ Product(new_sizes', dim_) <= numel_bound_
        /\ ~WellFormed)
          => (error' = InternalError /\ UNCHANGED << sizes_, numel_ >>)]_vars

-----------------------------------------------------------------------------
(* C13: the tracer receives exactly the hook calls made with the tracer     *)
(* code compiled in and a tracer supplied, one call of the corresponding    *)
(* method each, in order and with the hook's arguments; with the code       *)
(* compiled out or no tracer supplied it receives nothing.  The start hook  *)
(* returns the tracer's entry when it forwards and the value-initialised    *)
(* entry when it does not.                                                  *)
HookMethod(hook) ==
    CASE hook = "start" -> "start_profiling_delegate"
      [] hook = "end" -> "end_profiling_delegate"
      [] hook = "log_profiling" -> "log_profiling_delegate"
      [] hook = "log_output" -> "log_intermediate_output_delegate"

\* The calls a tracer is due for a record of hook calls.
RECURSIVE Due(_)
Due(invoked) ==
    IF invoked = << >> THEN << >>
    ELSE LET n == Len(invoked)
             last == invoked[n]
             before == Due(SubSeq(invoked, 1, n - 1))
         IN  IF hk.enabled /\ last.tracer # NULLPTR
             THEN Append(before, [method |-> HookMethod(last.hook),
                                  args |-> last.args])
             ELSE before

C13_HooksForward ==
    /\ hk.received = Due(hk.invoked)
    /\ (hk.invoked # << >> /\ hk.invoked[Len(hk.invoked)].hook = "start")
          => hk.ret = (IF hk.enabled
                          /\ hk.invoked[Len(hk.invoked)].tracer # NULLPTR
                       THEN Len(hk.received)
                       ELSE DefaultEntry)

\* With the tracer code compiled in, a start hook called without a tracer
\* has been followed by one called with a tracer.
C13_Witness ==
    /\ hk.enabled
    /\ Len(hk.invoked) = 2
    /\ hk.invoked[1].hook = "start" /\ hk.invoked[1].tracer = NULLPTR
    /\ hk.invoked[2].hook = "start" /\ hk.invoked[2].tracer = TRACER
    /\ Len(hk.received) = 1
    /\ hk.ret = 1

-----------------------------------------------------------------------------
(* C14: a descriptor that is DYNAMIC_BOUND and one that is DYNAMIC_UNBOUND, *)
(* alike in every other field, answer every request alike: the same status, *)
(* the same sizes, strides and element count afterwards (the capacity is    *)
(* written by no request).  Holding wherever a request can be made, it     *)
(* keeps two such descriptors alike along every sequence of requests.       *)
C14_BoundUnboundAlike ==
    (pc = "idle" /\ Dynamic) =>
        \A ns \in Requests :
            OutcomeUnder(DYNAMIC_BOUND, ns) = OutcomeUnder(DYNAMIC_UNBOUND, ns)

\* A DYNAMIC_UNBOUND descriptor, shrunk before, has refused a request past
\* its capacity.
C14_Witness ==
    /\ Returned
    /\ shape_dynamism_ = DYNAMIC_UNBOUND
    /\ WellFormed
    /\ dim_ >= 1
    /\ numel_ < numel_bound_
    /\ Len(new_sizes) = dim_
    /\ Product(new_sizes, dim_) > numel_bound_
    /\ error = UnsupportedResize

-----------------------------------------------------------------------------
(* C15: on a well-formed dynamic descriptor every request of the            *)
(* descriptor's rank whose product is at most the capacity succeeds,        *)
(* whatever was committed before, and one whose product is the capacity     *)
(* brings the element count back to the capacity.                           *)
C15_RegrowSucceeds ==
    (/\ Returned /\ Dynamic /\ WellFormed
     /\ dim_ >= 1
     /\ numel_bound_ >= 1
     /\ Len(new_sizes) = dim_
     /\ Product(new_sizes, dim_) <= numel_bound_)
        => /\ error = Ok
           /\ (Product(new_sizes, dim_) = numel_bound_) => numel_ = numel_bound_

-----------------------------------------------------------------------------
(* C16: the checks come in the order rank, rank 0, policy, strides buffer,  *)
(* dim order buffer, layout conversion, and the first that fails is         *)
(* reported.  So a dynamic descriptor without a strides or dim order buffer *)
(* answers a request whose product is past the capacity with                *)
(* UnsupportedResize, and a static descriptor without them accepts a        *)
(* request equal to its sizes.                                              *)
C16_PolicyBeforeBuffers ==
    (/\ Returned
     /\ dim_ >= 1
     /\ Len(new_sizes) = dim_
     /\ strides_null \/ dim_order_null)
        => /\ (Dynamic /\ Product(new_sizes, dim_) > numel_bound_)
                 => error = UnsupportedResize
           /\ (shape_dynamism_ = STATIC /\ new_sizes = sizes_) => error = Ok

-----------------------------------------------------------------------------
(* C17: in every reachable state of a descriptor constructed with a         *)
(* positive element count, the byte size is at most the capacity times the  *)
(* element width.                                                           *)
C17_BytesWithinCapacity ==
    (numel_bound_ >= 1) => nbytes <= numel_bound_ * element_size

=============================================================================
